---- MODULE Spec2Model ----
(***************************************************************************)
(* A model of omdb_tmdb_pmdb_script.py: the HTTP wrapper _make_request,    *)
(* the TVDB token cache and search, and the reconciliation pass of         *)
(* process_item inside the run loop.                                       *)
(*                                                                         *)
(* Conventions.  Python's None and its other falsy values of the same      *)
(* type share one encoding, as the code only ever tests them with `not`:   *)
(* the empty string "" for an absent string, 0 for an absent timestamp.    *)
(* Scores are kept in thousandths (74.0 is 74000).                         *)
(***************************************************************************)
EXTENDS Integers, Sequences, FiniteSets, TLC

VARIABLES
    req,              \* the _make_request call in progress (SpecRequest)
    tvdb_key,         \* self.tvdb_key: "" when the credential is not configured
    tvdb_token,       \* self.tvdb_token: "" for None
    token_timestamp,  \* self.token_timestamp: 0 for None
    now,              \* time.time()
    ticks,            \* how many times the clock advanced (SpecTvdb)
    token_call,       \* the last call of get_tvdb_token: what it saw and did
    search_call,      \* the last call of search_tvdb_by_imdb
    pc,               \* where run and process_item stand
    media_choice,     \* what the operator answers to "Movie or TV Show?"
    pmdb,             \* the target store's record of the title: mappings, rating labels
    media_type,       \* the locals of process_item
    imdb_id,
    ratings,
    tvdb_id,
    existing_mappings,
    existing_labels,
    new_ratings,
    existing_ratings,
    mappings_to_submit,
    success_count,
    reads,            \* how the two reads of the pass ended
    mapping_writes,   \* the calls of submit_mapping of the pass, with what each returned
    rating_writes,    \* the calls of submit_rating of the pass, with what each returned
    confirms,         \* the answers to the two confirmations of the pass
    error,            \* the last exception process_item raised, "" for none
    answer,           \* the last answer to "Process another item?"
    exit_reason,      \* why run ended
    synced,           \* the store's record of the title when the pass began
    parse_call        \* the call of the two parsers in progress: its inputs and results

(***************************************************************************)
(* Constants of the program                                                *)
(***************************************************************************)
MAX_RETRIES == 3

RETRY_DELAY == 1

TOKEN_EXPIRY == 3600

(***************************************************************************)
(* Bounds of the model                                                     *)
(***************************************************************************)
\* the clock advances at most this many times in a behaviour of SpecTvdb
MaxTicks == 3

\* at most this many results in a TVDB search response
MaxResults == 2

\* the longest Ratings array of a parsed payload
MaxEntries == 2

(***************************************************************************)
(* _make_request                                                           *)
(***************************************************************************)
\* What one call of requests.request can do: answer with a status code (and
\* a body), time out, or fail at the transport level.
Outcomes ==
    { [kind |-> "response", status |-> 200, body |-> "json"],
      [kind |-> "response", status |-> 404, body |-> "not found"],
      [kind |-> "response", status |-> 500, body |-> "server error"],
      [kind |-> "timeout",  status |-> 0,   body |-> ""],
      [kind |-> "conn",     status |-> 0,   body |-> ""] }

NoResponse == [kind |-> "none", status |-> 0, body |-> ""]

\* APIError carries one string.  msg is its fixed part, status the status code
\* that the text of the wrapped exception shows (0 when it shows none); the
\* body of the response is not part of the text.
NoError == [msg |-> "", status |-> 0, body |-> ""]

\* response.raise_for_status(): HTTPError for a 4xx or 5xx status
RaisesForStatus(o) == o.kind = "response" /\ o.status >= 400 /\ o.status < 600

\* the state of a call before its first attempt
NewRequest ==
    [state |-> "running", attempt |-> 0, response |-> NoResponse,
     error |-> NoError, sleeps |-> <<>>, seen |-> <<>>]

IdleRequest == [NewRequest EXCEPT !.state = "idle"]

\* a faulty variant of IsLastAttempt: the bound compared off by one
IsLastAttemptOffByOne(attempt) == attempt = MAX_RETRIES

\* `if attempt == MAX_RETRIES - 1`
IsLastAttempt(attempt) == attempt = MAX_RETRIES - 1

\* One iteration of `for attempt in range(MAX_RETRIES)` on outcome o; after
\* the last iteration the function falls off its end and returns None.
AttemptStep(r, o) ==
    LET s == [r EXCEPT !.seen = Append(@, o)] IN
    IF o.kind = "response" /\ ~RaisesForStatus(o)
    THEN [s EXCEPT !.state = "returned", !.response = o]
    ELSE IF IsLastAttempt(r.attempt)
         THEN [s EXCEPT !.state = "raised",
                        !.error = IF o.kind = "timeout"
                                  THEN [msg |-> "Request timed out", status |-> 0,
                                        body |-> ""]
                                  ELSE [msg |-> "Request failed", status |-> o.status,
                                        body |-> ""]]
         ELSE IF r.attempt + 1 < MAX_RETRIES
              THEN [s EXCEPT !.attempt = @ + 1, !.sleeps = Append(@, RETRY_DELAY)]
              ELSE [s EXCEPT !.state = "returned_none",
                             !.sleeps = Append(@, RETRY_DELAY)]

\* the whole call, given what each attempt meets
RECURSIVE RunAttempts(_, _)
RunAttempts(r, outs) ==
    IF r.state # "running" \/ outs = <<>>
    THEN r
    ELSE RunAttempts(AttemptStep(r, Head(outs)), Tail(outs))

MakeRequest(outs) == RunAttempts(NewRequest, outs)

\* what the attempts of one call can meet
AttemptOutcomes == [1..MAX_RETRIES -> Outcomes]

\* every way a call can end, as its caller sees it: the response or the error,
\* and the time slept
RequestResults == { [MakeRequest(outs) EXCEPT !.seen = <<>>] : outs \in AttemptOutcomes }

tvdbVars == <<tvdb_key, tvdb_token, token_timestamp, now, ticks, token_call,
              search_call>>

locals == <<media_type, imdb_id, ratings, tvdb_id, existing_mappings, existing_labels,
            new_ratings, existing_ratings, mappings_to_submit, success_count, reads,
            mapping_writes, rating_writes, confirms, error>>

runVars == <<pc, media_choice, pmdb, answer, exit_reason, synced>>

vars == <<req, tvdbVars, locals, runVars, parse_call>>

NoTokenCall ==
    [called |-> FALSE, cached0 |-> "", issued0 |-> 0, at |-> 0, login |-> FALSE,
     login_ok |-> FALSE, ret |-> "", issued1 |-> 0]

NoResult == [name |-> "", tvdb_id |-> [ty |-> "none", n |-> 0], remote_ids |-> <<>>]

NoSearchCall ==
    [called |-> FALSE, query |-> "", token |-> "", ok |-> FALSE, results |-> <<>>,
     ret |-> NoResult, raised |-> FALSE]

(***************************************************************************)
(* Values                                                                  *)
(***************************************************************************)
NoTvdbId == [ty |-> "none", n |-> 0]

Digits == <<"0", "1", "2", "3", "4", "5", "6", "7", "8", "9">>

\* str(tvdb_id): the decimal text of an integer; a string is its own text,
\* kept here as the number it spells
Str(id) == Digits[id.n + 1]

\* `if tvdb_id`: None and the integer 0 are falsy, a non-empty string is not
Truthy(id) == id.ty = "str" \/ (id.ty = "int" /\ id.n # 0)

\* str.upper() on the strings of the model
Upper(str) ==
    CASE str = "im" -> "IM"
      [] str = "Im" -> "IM"
      [] str = "rt" -> "RT"
      [] str = "mc" -> "MC"
      [] str = "tm" -> "TM"
      [] str = "tt1" -> "TT1"
      [] str = "tt2" -> "TT2"
      [] OTHER -> str

\* str.lower().strip() on the answers of the model
LowerStrip(str) ==
    CASE str = "Y" -> "y"
      [] str = " yes " -> "yes"
      [] str = "YES" -> "yes"
      [] str = "N" -> "n"
      [] str = " " -> ""
      [] OTHER -> str

\* what the operator can type at a yes/no prompt
Answers == {"y", "Y", " yes ", "", " ", "n", "no", "q"}

\* `confirm in ['y', 'yes', '']`
IsYes(str) == LowerStrip(str) \in {"y", "yes", ""}

Range(q) == { q[i] : i \in 1..Len(q) }

Rating(label, score) == [label |-> label, score |-> score]

\* d[label] = score on a dict kept as the sequence of its items in insertion order
DictSet(d, label, score) ==
    IF \E i \in 1..Len(d) : d[i].label = label
    THEN [i \in 1..Len(d) |-> IF d[i].label = label THEN Rating(label, score) ELSE d[i]]
    ELSE Append(d, Rating(label, score))

(***************************************************************************)
(* parse_omdb_ratings and parse_tmdb_rating.  Numbers are kept in          *)
(* thousandths: 7.4 is 7400 and the score 74.0 is 74000.                   *)
(***************************************************************************)
\* a string field of a payload; a missing one is what dict.get() returns: None
Text(t) == [present |-> TRUE, text |-> t]

Missing == [present |-> FALSE, text |-> ""]

\* the texts float() accepts, with their values
FloatTexts == {"7.4", "91", "65"}

FloatOf(t) ==
    CASE t = "7.4" -> 7400
      [] t = "91" -> 91000
      [] t = "65" -> 65000

\* value.replace('%', '')
StripPercent(t) == IF t = "91%" THEN "91" ELSE t

\* value.split('/')[0]
BeforeSlash(t) == IF t = "65/100" THEN "65" ELSE IF t = "7.4/10" THEN "7.4" ELSE t

\* a faulty variant of Round1: the digits after the first decimal cut off
Round1Truncate(x) == (x \div 100) * 100

\* round(x, 1), x in thousandths
Round1(x) == ((x + 50) \div 100) * 100

\* One entry of the Ratings array: the dict after it, or raised when the entry
\* makes the loop body raise something other than ValueError and IndexError
\* (a method called on a missing Value).
ParseEntry(acc, entry) ==
    IF acc.raised THEN acc
    ELSE IF entry.Source = Text("Rotten Tomatoes") /\ entry.Value # Text("N/A")
    THEN IF ~entry.Value.present THEN [acc EXCEPT !.raised = TRUE]
         ELSE IF StripPercent(entry.Value.text) \in FloatTexts
         THEN [acc EXCEPT !.ratings =
                   DictSet(@, "RT", FloatOf(StripPercent(entry.Value.text)))]
         ELSE acc
    ELSE IF entry.Source = Text("Metacritic") /\ entry.Value # Text("N/A")
    THEN IF ~entry.Value.present THEN [acc EXCEPT !.raised = TRUE]
         ELSE IF BeforeSlash(entry.Value.text) \in FloatTexts
         THEN [acc EXCEPT !.ratings =
                   DictSet(@, "MC", FloatOf(BeforeSlash(entry.Value.text)))]
         ELSE acc
    ELSE acc

RECURSIVE ParseEntries(_, _)
ParseEntries(acc, entries) ==
    IF entries = <<>> THEN acc
    ELSE ParseEntries(ParseEntry(acc, Head(entries)), Tail(entries))

\* parse_omdb_ratings(omdb_data)
ParseOmdbRatings(omdb_data) ==
    LET im == omdb_data.imdbRating
        first == IF im.present /\ im.text # "" /\ im.text # "N/A" /\ im.text \in FloatTexts
                 THEN <<Rating("IM", Round1(FloatOf(im.text) * 10))>>
                 ELSE <<>>
    IN ParseEntries([ratings |-> first, raised |-> FALSE], omdb_data.Ratings)

\* parse_tmdb_rating(details): vote_average 0 stands for a missing one and for
\* missing details; None is returned as 0
ParseTmdbRating(vote_average) ==
    IF vote_average # 0 /\ vote_average > 0 THEN Round1(vote_average * 10) ELSE 0

OmdbEntry(source, value) == [Source |-> source, Value |-> value]

\* the OMDb payloads of the model
OmdbPayloads ==
    { [imdbRating |-> im, Ratings |-> rs] :
        im \in {Text("7.4"), Text("N/A"), Missing},
        rs \in { <<>>,
                 <<OmdbEntry(Text("Internet Movie Database"), Text("7.4/10")),
                   OmdbEntry(Text("Rotten Tomatoes"), Text("91%"))>>,
                 <<OmdbEntry(Text("Rotten Tomatoes"), Text("91%")),
                   OmdbEntry(Text("Metacritic"), Text("65/100"))>>,
                 <<OmdbEntry(Text("Rotten Tomatoes"), Text("N/A")),
                   OmdbEntry(Text("Metacritic"), Text("tbd"))>>,
                 <<OmdbEntry(Text("Rotten Tomatoes"), Missing)>> } }

\* the vote averages of the model: none, and 8.12
VoteAverages == {0, 8120}

(***************************************************************************)
(* The target store and its client                                         *)
(***************************************************************************)
Mapping(id_type, id_value) == <<id_type, id_value>>

EmptyStore == [mappings |-> {}, labels |-> {}]

\* a store that already holds an identifier and a label in another case
UsedStore == [mappings |-> {Mapping("imdb", "TT1")}, labels |-> {"im"}]

\* a faulty variant of GetExistingMappings: only "not found" is taken for empty,
\* any other failure is raised again
GetExistingMappingsStrict(r, stored) ==
    IF r.state = "returned"
    THEN [value |-> [t \in { m[1] : m \in stored } |->
                        { m[2] : m \in { x \in stored : x[1] = t } }],
          ok |-> TRUE, raised |-> FALSE]
    ELSE [value |-> <<>>, ok |-> FALSE, raised |-> r.error.status # 404]

\* get_existing_mappings: r is how the request ends, stored the mappings the
\* store holds for the title; the dict by id_type, {} after any exception
GetExistingMappings(r, stored) ==
    IF r.state = "returned"
    THEN [value |-> [t \in { m[1] : m \in stored } |->
                        { m[2] : m \in { x \in stored : x[1] = t } }],
          ok |-> TRUE, raised |-> FALSE]
    ELSE [value |-> <<>>, ok |-> FALSE, raised |-> FALSE]

\* get_existing_ratings: the labels the store holds, upper-cased; set() after
\* any exception
GetExistingRatings(r, stored) ==
    IF r.state = "returned"
    THEN [value |-> { Upper(l) : l \in stored }, ok |-> TRUE, raised |-> FALSE]
    ELSE [value |-> {}, ok |-> FALSE, raised |-> FALSE]

\* a faulty variant of ImdbExists: identifiers compared without their case
ImdbExistsAnyCase(existing, id) ==
    "imdb" \in DOMAIN existing /\ Upper(id) \in { Upper(v) : v \in existing["imdb"] }

\* `'imdb' in existing_mappings and imdb_id in existing_mappings['imdb']`
ImdbExists(existing, id) ==
    "imdb" \in DOMAIN existing /\ id \in existing["imdb"]

\* a faulty variant of TvdbExists: the identifier compared as it came, not as text
TvdbExistsRaw(existing, id) ==
    /\ Truthy(id)
    /\ "tvdb" \in DOMAIN existing
    /\ id.ty = "str"
    /\ Str(id) \in existing["tvdb"]

\* `tvdb_id and 'tvdb' in existing_mappings and str(tvdb_id) in existing_mappings['tvdb']`
TvdbExists(existing, id) ==
    /\ Truthy(id)
    /\ "tvdb" \in DOMAIN existing
    /\ Str(id) \in existing["tvdb"]

\* the dict comprehension of new_ratings
NewRatings(rs, labels) == SelectSeq(rs, LAMBDA x : Upper(x.label) \notin labels)

\* a faulty variant of ExistingRatings: the test of new_ratings copied
ExistingRatingsCopied(rs, labels) == SelectSeq(rs, LAMBDA x : Upper(x.label) \notin labels)

\* the dict comprehension of existing_ratings
ExistingRatings(rs, labels) == SelectSeq(rs, LAMBDA x : Upper(x.label) \in labels)

\* Step 10: mappings_to_submit
MappingsToSubmit(existing, imdb, tvdb) ==
    (IF ~ImdbExists(existing, imdb) THEN <<Mapping("imdb", imdb)>> ELSE <<>>)
    \o (IF Truthy(tvdb) /\ ~TvdbExists(existing, tvdb)
        THEN <<Mapping("tvdb", Str(tvdb))>> ELSE <<>>)

\* submit_mapping and submit_rating: True when the request returns, False
\* after any exception
Submit(r) == [ok |-> r.state = "returned", raised |-> FALSE]

\* what each write of a batch of n meets
WriteResults(n) == [1..n -> { Submit(r).ok : r \in RequestResults }]

\* a faulty variant of WritesDone: the batch stops at its first failed write
WritesDoneUntilFailure(items, oks) ==
    LET n == Len(items)
        stop == IF \E i \in 1..n : ~oks[i]
                THEN CHOOSE i \in 1..n : ~oks[i] /\ \A k \in 1..(i - 1) : oks[k]
                ELSE n
    IN [i \in 1..stop |-> [item |-> items[i], ok |-> oks[i]]]

\* `for ... in items: submit(...)`: one call for each item, in order
WritesDone(items, oks) ==
    [i \in 1..Len(items) |-> [item |-> items[i], ok |-> oks[i]]]

\* the store after the writes that succeeded
StoreAfterMappings(store, writes) ==
    [store EXCEPT !.mappings =
        @ \cup { writes[i].item : i \in { k \in 1..Len(writes) : writes[k].ok } }]

StoreAfterRatings(store, writes) ==
    [store EXCEPT !.labels =
        @ \cup { writes[i].item.label : i \in { k \in 1..Len(writes) : writes[k].ok } }]

\* success_count after the loop of Step 12
CountOk(writes) == Cardinality({ i \in 1..Len(writes) : writes[i].ok })

(***************************************************************************)
(* Initial values                                                          *)
(***************************************************************************)
NoReads == [mappings |-> "none", ratings |-> "none"]

NoConfirms == [mappings |-> "none", ratings |-> "none"]

NoParseCall ==
    [called |-> FALSE, omdb_data |-> [imdbRating |-> Missing, Ratings |-> <<>>],
     vote_average |-> 0, out |-> [ratings |-> <<>>, raised |-> FALSE],
     collected |-> [ratings |-> <<>>, raised |-> FALSE]]

\* __init__: no token cached
InitClient ==
    /\ tvdb_token = ""
    /\ token_timestamp = 0
    /\ now = 1
    /\ ticks = 0
    /\ token_call = NoTokenCall
    /\ search_call = NoSearchCall
    /\ parse_call = NoParseCall

InitLocals ==
    /\ media_type = ""
    /\ imdb_id = ""
    /\ ratings = <<>>
    /\ tvdb_id = NoTvdbId
    /\ existing_mappings = <<>>
    /\ existing_labels = {}
    /\ new_ratings = <<>>
    /\ existing_ratings = <<>>
    /\ mappings_to_submit = <<>>
    /\ success_count = 0
    /\ reads = NoReads
    /\ mapping_writes = <<>>
    /\ rating_writes = <<>>
    /\ confirms = NoConfirms
    /\ error = ""

InitSession ==
    /\ InitLocals
    /\ pc = "process_item"
    /\ answer = ""
    /\ exit_reason = ""

(***************************************************************************)
(* SpecRequest: one call of _make_request after another, attempt by        *)
(* attempt                                                                 *)
(***************************************************************************)
StartRequest ==
    /\ req.state # "running"
    /\ req' = NewRequest
    /\ UNCHANGED <<tvdbVars, locals, runVars, parse_call>>

Attempt ==
    /\ req.state = "running"
    /\ \E o \in Outcomes : req' = AttemptStep(req, o)
    /\ UNCHANGED <<tvdbVars, locals, runVars, parse_call>>

InitRequest ==
    /\ req = IdleRequest
    /\ InitClient
    /\ tvdb_key = "key"
    /\ InitSession
    /\ media_choice = "1"
    /\ pmdb = EmptyStore
    /\ synced = EmptyStore

NextRequest == StartRequest \/ Attempt

SpecRequest == InitRequest /\ [][NextRequest]_vars

Finished(r) == r.state \in {"returned", "raised", "returned_none"}

IsFailure(o) == o.kind \in {"timeout", "conn"} \/ RaisesForStatus(o)

\* C4: every call of _make_request ends after at most MAX_RETRIES attempts; it
\* returns the response of the first attempt that succeeds and makes no
\* further attempt, sleeps RETRY_DELAY after each failed attempt but the last,
\* raises when the last attempt fails, and never returns without a response.
C4_BoundedRetry ==
    /\ Len(req.seen) <= MAX_RETRIES
    /\ req.state # "returned_none"
    /\ req.state = "running" => req.attempt = Len(req.seen) /\ req.attempt < MAX_RETRIES
    /\ \A i \in 1..Len(req.seen) : i < Len(req.seen) => IsFailure(req.seen[i])
    /\ req.state = "returned" =>
          /\ req.response = req.seen[Len(req.seen)]
          /\ ~IsFailure(req.response)
    /\ req.state = "raised" =>
          /\ Len(req.seen) = MAX_RETRIES
          /\ \A i \in 1..MAX_RETRIES : IsFailure(req.seen[i])
          /\ req.error # NoError
          /\ req.response = NoResponse
    /\ req.state \in {"running", "returned"} =>
          req.sleeps = [i \in 1..(Len(req.seen) - (IF req.state = "returned" THEN 1 ELSE 0))
                          |-> RETRY_DELAY]
    /\ req.state = "raised" => req.sleeps = [i \in 1..(MAX_RETRIES - 1) |-> RETRY_DELAY]

\* C4's case: a call that failed twice, slept twice and succeeded on its third
\* attempt
C4_Witness ==
    /\ req.state = "returned"
    /\ Len(req.seen) = MAX_RETRIES
    /\ req.sleeps = <<RETRY_DELAY, RETRY_DELAY>>

\* C5: a response with a non-2xx status is not retried; it ends the call with
\* an error that carries the status code and the response body.
C5_HttpStatusNotRetried ==
    \A i \in 1..Len(req.seen) :
        RaisesForStatus(req.seen[i]) =>
            /\ i = Len(req.seen)
            /\ req.state = "raised"
            /\ req.error.status = req.seen[i].status
            /\ req.error.body = req.seen[i].body

(***************************************************************************)
(* The TVDB client: get_tvdb_token and search_tvdb_by_imdb                 *)
(***************************************************************************)
\* the tokens a login response can carry; "" is a response without a token
LoginTokens == {"tokA", "tokB", ""}

\* a faulty variant of TokenFresh: the expiry compared with <= instead of <
TokenFreshInclusive(t, issued) == (t - issued) <= TOKEN_EXPIRY

\* `(time.time() - self.token_timestamp) < self.TOKEN_EXPIRY`
TokenFresh(t, issued) == (t - issued) < TOKEN_EXPIRY

\* get_tvdb_token, from the cache (token, issued) at time t; r is how the login
\* request ends if one is made and tok the token of its response.  The clock
\* stands still during a call: it advances between the steps of the model.
GetTvdbToken(key, token, issued, t, r, tok) ==
    IF key = ""
    THEN [ret |-> "", token |-> token, issued |-> issued,
          login |-> FALSE, login_ok |-> FALSE]
    ELSE IF token # "" /\ issued # 0 /\ TokenFresh(t, issued)
    THEN [ret |-> token, token |-> token, issued |-> issued,
          login |-> FALSE, login_ok |-> FALSE]
    ELSE IF r.state = "returned"
    THEN [ret |-> tok, token |-> tok, issued |-> t,
          login |-> TRUE, login_ok |-> TRUE]
    ELSE [ret |-> "", token |-> token, issued |-> issued,
          login |-> TRUE, login_ok |-> FALSE]

\* one entry of a search result's remote_ids
RemoteId(source, id) == [sourceName |-> source, id |-> id]

\* the identifiers the model knows: the queried one and another
ImdbIds == {"tt1", "tt2"}

\* the remote_ids lists a search result can carry for query q
RemoteIdLists(q) ==
    LET other == CHOOSE x \in ImdbIds : x # q IN
    { <<>>,
      <<RemoteId("IMDB", q)>>,
      <<RemoteId("IMDB", other)>>,
      <<RemoteId("TheMovieDB", q), RemoteId("IMDB", q)>> }

ResultNames == <<"A", "B", "C", "D">>

MkResult(name, id, rids) == [name |-> name, tvdb_id |-> id, remote_ids |-> rids]

\* the i-th result of a response: results differ at least in their names
SearchResult(i, rids) == MkResult(ResultNames[i], [ty |-> "int", n |-> i], rids)

\* the result lists of at most MaxResults results for query q
ResultLists(q) ==
    UNION { { [i \in 1..n |-> SearchResult(i, f[i])] : f \in [1..n -> RemoteIdLists(q)] }
            : n \in 0..MaxResults }

\* `remote_id.get('sourceName') == 'IMDB' and remote_id.get('id') == imdb_id`
\* for some entry of the result's remote_ids
ExactMatch(result, query) ==
    \E j \in 1..Len(result.remote_ids) :
        /\ result.remote_ids[j].sourceName = "IMDB"
        /\ result.remote_ids[j].id = query

\* a faulty variant of PickResult: always the first result
PickFirstResult(results, query) ==
    IF results # <<>> THEN results[1] ELSE NoResult

\* the loop over the results and the fallback `results[0] if results else None`
PickResult(results, query) ==
    IF \E i \in 1..Len(results) : ExactMatch(results[i], query)
    THEN results[CHOOSE i \in 1..Len(results) :
                    /\ ExactMatch(results[i], query)
                    /\ \A k \in 1..(i - 1) : ~ExactMatch(results[k], query)]
    ELSE IF results # <<>> THEN results[1] ELSE NoResult

\* search_tvdb_by_imdb after get_tvdb_token returned token: r is how the
\* search request ends, results the list its response carries.  Any exception
\* is caught and gives None.
SearchTvdbByImdb(query, token, r, results) ==
    IF token = ""
    THEN [ret |-> NoResult, raised |-> FALSE, searched |-> FALSE]
    ELSE IF r.state = "returned"
    THEN [ret |-> PickResult(results, query), raised |-> FALSE, searched |-> TRUE]
    ELSE [ret |-> NoResult, raised |-> FALSE, searched |-> TRUE]

(***************************************************************************)
(* SpecTvdb: calls of get_tvdb_token and search_tvdb_by_imdb as time       *)
(* passes                                                                  *)
(***************************************************************************)
Ticks == {RETRY_DELAY, TOKEN_EXPIRY - RETRY_DELAY, TOKEN_EXPIRY}

Tick ==
    /\ ticks < MaxTicks
    /\ \E d \in Ticks : now' = now + d
    /\ ticks' = ticks + 1
    /\ UNCHANGED <<req, parse_call, tvdb_key, tvdb_token, token_timestamp, token_call, search_call>>
    /\ UNCHANGED <<locals, runVars>>

TokenCallRecord(g) ==
    [called |-> TRUE, cached0 |-> tvdb_token, issued0 |-> token_timestamp, at |-> now,
     login |-> g.login, login_ok |-> g.login_ok, ret |-> g.ret, issued1 |-> g.issued]

\* the ways a call of get_tvdb_token can end in the current state, the login
\* response carrying one of toks
TokenCalls(toks) ==
    { GetTvdbToken(tvdb_key, tvdb_token, token_timestamp, now, r, tok) :
        r \in RequestResults, tok \in toks }

CallGetTvdbToken ==
    /\ \E g \in TokenCalls(LoginTokens) :
          /\ tvdb_token' = g.token
          /\ token_timestamp' = g.issued
          /\ token_call' = TokenCallRecord(g)
    /\ search_call' = NoSearchCall
    /\ UNCHANGED <<req, parse_call, tvdb_key, now, ticks, locals, runVars>>

\* the ways the rest of search_tvdb_by_imdb can end once get_tvdb_token
\* returned token
SearchCalls(q, token, lists) ==
    { [out |-> SearchTvdbByImdb(q, token, r, results),
       ok |-> token # "" /\ r.state = "returned",
       results |-> IF token # "" /\ r.state = "returned" THEN results ELSE <<>>] :
        r \in RequestResults, results \in lists }

CallSearchTvdbByImdb ==
    /\ \E q \in {"tt1"} : \E g \in TokenCalls(LoginTokens) :
       \E s \in SearchCalls(q, g.ret, ResultLists(q)) :
          /\ tvdb_token' = g.token
          /\ token_timestamp' = g.issued
          /\ token_call' = TokenCallRecord(g)
          /\ search_call' =
                [called |-> TRUE, query |-> q, token |-> g.ret, ok |-> s.ok,
                 results |-> s.results, ret |-> s.out.ret, raised |-> s.out.raised]
    /\ UNCHANGED <<req, parse_call, tvdb_key, now, ticks, locals, runVars>>

InitTvdb ==
    /\ req = IdleRequest
    /\ InitClient
    /\ tvdb_key \in {"key", ""}
    /\ InitSession
    /\ media_choice = "1"
    /\ pmdb = EmptyStore
    /\ synced = EmptyStore

NextTvdb == Tick \/ CallGetTvdbToken

SpecTvdb == InitTvdb /\ [][NextTvdb]_vars

\* SpecSearch: one call of search_tvdb_by_imdb after another
NextSearch == CallSearchTvdbByImdb

SpecSearch == InitTvdb /\ [][NextSearch]_vars

\* C6: with a TVDB credential, a call of get_tvdb_token logs in exactly when
\* no token is cached or the cached one is TOKEN_EXPIRY or more old; a younger
\* cached token is returned without a login; no token is returned at an age
\* of TOKEN_EXPIRY or more; a failed login gives None, not the stale token.
C6_TokenReuse ==
    (token_call.called /\ tvdb_key # "") =>
        LET age0 == token_call.at - token_call.issued0 IN
        /\ token_call.login <=> (token_call.cached0 = "" \/ age0 >= TOKEN_EXPIRY)
        /\ (token_call.cached0 # "" /\ age0 < TOKEN_EXPIRY) =>
              token_call.ret = token_call.cached0
        /\ token_call.ret # "" => token_call.at - token_call.issued1 < TOKEN_EXPIRY
        /\ (token_call.ret # "" /\ ~token_call.login) =>
              token_call.issued1 = token_call.issued0
        /\ (token_call.login /\ ~token_call.login_ok) => token_call.ret = ""

\* C6's case: a call that finds the cached token exactly TOKEN_EXPIRY old, logs in
\* again and returns the new token
C6_Witness ==
    /\ token_call.called
    /\ token_call.cached0 # ""
    /\ token_call.at - token_call.issued0 = TOKEN_EXPIRY
    /\ token_call.login
    /\ token_call.ret # ""
    /\ token_call.ret # token_call.cached0

\* C7: search_tvdb_by_imdb returns the first result whose remote_ids hold an
\* entry with sourceName 'IMDB' and the queried id, wherever it stands; without
\* such a result the first result; None for an empty list and when the
\* authentication or the search request fails; it never raises.
C7_SearchTieBreak ==
    search_call.called =>
        LET rs == search_call.results
            q == search_call.query
            hits == { i \in 1..Len(rs) :
                        \E j \in 1..Len(rs[i].remote_ids) :
                            rs[i].remote_ids[j] = RemoteId("IMDB", q) }
        IN
        /\ ~search_call.raised
        /\ (search_call.token = "" \/ ~search_call.ok) => search_call.ret = NoResult
        /\ search_call.ok =>
              /\ hits # {} =>
                    \E i \in hits : /\ search_call.ret = rs[i]
                                    /\ \A k \in hits : i <= k
              /\ (hits = {} /\ rs # <<>>) => search_call.ret = rs[1]
              /\ rs = <<>> => search_call.ret = NoResult

\* C7's case: of two results only the second matches, and it is the one returned
C7_Witness ==
    /\ search_call.called
    /\ search_call.ok
    /\ Len(search_call.results) = 2
    /\ ~ExactMatch(search_call.results[1], search_call.query)
    /\ ExactMatch(search_call.results[2], search_call.query)
    /\ search_call.ret = search_call.results[2]

(***************************************************************************)
(* Spec: run, and process_item step by step.  A step is the code between   *)
(* two things the program waits for: the operator's input, or the answers  *)
(* of one service.  A behaviour follows one title: the operator picks the  *)
(* same media type and the same search result in every pass, and pmdb is   *)
(* what the store holds for that title.                                    *)
(***************************************************************************)
ResetLocals ==
    /\ media_type' = ""
    /\ imdb_id' = ""
    /\ ratings' = <<>>
    /\ tvdb_id' = NoTvdbId
    /\ existing_mappings' = <<>>
    /\ existing_labels' = {}
    /\ new_ratings' = <<>>
    /\ existing_ratings' = <<>>
    /\ mappings_to_submit' = <<>>
    /\ success_count' = 0
    /\ reads' = NoReads
    /\ mapping_writes' = <<>>
    /\ rating_writes' = <<>>
    /\ confirms' = NoConfirms

\* a faulty variant of OnException: the handler of run lets the exception through
OnExceptionUncaught(exc) == [pc |-> "exited", reason |-> "error"]

\* run's handlers around process_item: KeyboardInterrupt breaks the loop, any
\* other exception is printed and the loop goes on to its prompt
OnException(exc) ==
    IF exc = "KeyboardInterrupt"
    THEN [pc |-> "exited", reason |-> "interrupt"]
    ELSE [pc |-> "ask", reason |-> ""]

\* the answers to "Select ... number (or 0 to cancel)": -1 stands for a text
\* that int() rejects
Selections == {-1, 0, 1, 2}

\* search_tmdb: the number of results, none after any exception
SearchTmdb(r, n) == IF r.state = "returned" THEN n ELSE 0

\* Steps 1 to 3: whether an item is selected
Selected(title, found, choice) ==
    /\ title # ""
    /\ found # 0
    /\ choice # -1
    /\ choice # 0
    /\ 1 <= choice /\ choice <= found

\* the ways Steps 2 and 3 can end
SelectEnds ==
    { Selected(title, SearchTmdb(r, n), choice) :
        title \in {"", "Alien"}, r \in RequestResults, n \in {0, 1},
        choice \in Selections }

\* Steps 1 to 3 of process_item: media type, title, search, selection
SelectItem ==
    /\ pc = "process_item"
    /\ media_type' = IF media_choice = "2" THEN "tv" ELSE "movie"
    /\ \E selected \in SelectEnds : pc' = IF selected THEN "fetch" ELSE "ask"
    /\ answer' = ""
    /\ error' = ""
    /\ UNCHANGED <<imdb_id, ratings, tvdb_id, existing_mappings, existing_labels,
                   new_ratings, existing_ratings, mappings_to_submit, success_count,
                   reads, mapping_writes, rating_writes, confirms>>
    /\ UNCHANGED <<req, parse_call, tvdbVars, media_choice, pmdb, exit_reason, synced>>

\* get_tmdb_details, then `external_ids.get('imdb_id') if external_ids else None`
ImdbIdFound(r, id) == IF r.state = "returned" THEN id ELSE ""

\* a faulty variant of HasImdbId: the pass goes on without an identifier
HasImdbIdAlways(id) == TRUE

\* `if not imdb_id: ... return`, negated
HasImdbId(id) == id # ""

\* the OMDb payloads of a pass
PassPayloads ==
    { d \in OmdbPayloads :
        /\ d.imdbRating # Missing
        /\ d.Ratings # <<>> => d.Ratings[1].Source # Text("Rotten Tomatoes")
                               \/ ~d.Ratings[1].Value.present }

\* what get_omdb_ratings can return: None (no key, or an exception), a payload
\* with Response 'False', or a payload
OmdbAnswers ==
    {[kind |-> "none", data |-> <<>>], [kind |-> "false", data |-> <<>>]}
    \cup { [kind |-> "data", data |-> d] : d \in PassPayloads }

\* Step 5: ratings from OMDb, then `if tmdb_rating: ratings['TM'] = tmdb_rating`
CollectRatings(omdb, vote_average) ==
    LET parsed == IF omdb.kind = "data"
                  THEN ParseOmdbRatings(omdb.data)
                  ELSE [ratings |-> <<>>, raised |-> FALSE]
        tm == ParseTmdbRating(vote_average)
    IN IF parsed.raised THEN parsed
       ELSE [ratings |-> IF tm # 0 THEN DictSet(parsed.ratings, "TM", tm)
                         ELSE parsed.ratings,
             raised |-> FALSE]

\* the ways Steps 4 and 5 can end
FetchEnds ==
    { [imdb_id |-> ImdbIdFound(r1, id),
       collected |-> CollectRatings(omdb, IF r2.state = "returned" THEN v ELSE 0)] :
        r1 \in RequestResults, id \in {"", "tt1"}, r2 \in RequestResults,
        v \in VoteAverages, omdb \in OmdbAnswers }

\* Steps 4 and 5 of process_item
FetchData ==
    /\ pc = "fetch"
    /\ \E e \in FetchEnds :
          /\ imdb_id' = e.imdb_id
          /\ IF ~HasImdbId(e.imdb_id)
             THEN /\ pc' = "ask"
                  /\ UNCHANGED <<ratings, error, exit_reason>>
             ELSE IF e.collected.raised
             THEN /\ pc' = OnException("AttributeError").pc
                  /\ exit_reason' = OnException("AttributeError").reason
                  /\ error' = "AttributeError"
                  /\ UNCHANGED ratings
             ELSE /\ pc' = IF media_type = "tv" THEN "resolve_tvdb" ELSE "reconcile"
                  /\ ratings' = e.collected.ratings
                  /\ UNCHANGED <<error, exit_reason>>
    /\ UNCHANGED <<media_type, tvdb_id, existing_mappings, existing_labels,
                   new_ratings, existing_ratings, mappings_to_submit, success_count,
                   reads, mapping_writes, rating_writes, confirms>>
    /\ UNCHANGED <<req, parse_call, tvdbVars, media_choice, pmdb, answer, synced>>

\* the result lists of the searches of a pass: each kind of tvdb_id, and a
\* list whose second result is the match
PassResultLists(q) ==
    { <<>>,
      <<MkResult("A", [ty |-> "int", n |-> 5], <<RemoteId("IMDB", q)>>)>>,
      <<MkResult("A", [ty |-> "str", n |-> 5], <<RemoteId("IMDB", q)>>)>>,
      <<MkResult("A", [ty |-> "int", n |-> 0], <<>>)>>,
      <<MkResult("A", [ty |-> "int", n |-> 7], <<>>),
        MkResult("B", [ty |-> "int", n |-> 5], <<RemoteId("IMDB", q)>>)>> }

\* Step 6 of process_item: `tvdb_data.get('tvdb_id')` of what the search returns
ResolveTvdb ==
    /\ pc = "resolve_tvdb"
    /\ \E g \in TokenCalls({"tokA", ""}) :
       \E s \in SearchCalls(imdb_id, g.ret, PassResultLists(imdb_id)) :
          /\ tvdb_token' = g.token
          /\ token_timestamp' = g.issued
          /\ tvdb_id' = s.out.ret.tvdb_id
    /\ pc' = "reconcile"
    /\ UNCHANGED <<media_type, imdb_id, ratings, existing_mappings, existing_labels,
                   new_ratings, existing_ratings, mappings_to_submit, success_count,
                   reads, mapping_writes, rating_writes, confirms, error>>
    /\ UNCHANGED <<req, parse_call, tvdb_key, now, ticks, token_call, search_call, media_choice,
                   pmdb, answer, exit_reason, synced>>

\* the ways the two reads of Steps 7 and 8 can end
MappingReads == { GetExistingMappings(r, pmdb.mappings) : r \in RequestResults }

RatingReads == { GetExistingRatings(r, pmdb.labels) : r \in RequestResults }

\* Steps 7 to 10 of process_item, up to the first confirmation
Reconcile ==
    /\ pc = "reconcile"
    /\ \E em \in MappingReads, el \in RatingReads :
          IF em.raised \/ el.raised
          THEN /\ pc' = OnException("APIError").pc
               /\ exit_reason' = OnException("APIError").reason
               /\ error' = "APIError"
               /\ reads' = [mappings |-> IF em.raised THEN "raised" ELSE "ok",
                            ratings |-> IF em.raised THEN "none" ELSE "raised"]
               /\ UNCHANGED <<existing_mappings, existing_labels, new_ratings,
                              existing_ratings, mappings_to_submit>>
          ELSE /\ existing_mappings' = em.value
               /\ existing_labels' = el.value
               /\ reads' = [mappings |-> IF em.ok THEN "ok" ELSE "failed",
                            ratings |-> IF el.ok THEN "ok" ELSE "failed"]
               /\ new_ratings' = NewRatings(ratings, el.value)
               /\ existing_ratings' = ExistingRatings(ratings, el.value)
               /\ mappings_to_submit' = MappingsToSubmit(em.value, imdb_id, tvdb_id)
               /\ pc' = IF MappingsToSubmit(em.value, imdb_id, tvdb_id) # <<>>
                        THEN "confirm_mappings"
                        ELSE IF NewRatings(ratings, el.value) # <<>>
                        THEN "confirm_ratings"
                        ELSE "ask"
               /\ UNCHANGED <<error, exit_reason>>
    /\ UNCHANGED <<media_type, imdb_id, ratings, tvdb_id, success_count, mapping_writes,
                   rating_writes, confirms>>
    /\ UNCHANGED <<req, parse_call, tvdbVars, media_choice, pmdb, answer, synced>>

\* Step 10 of process_item: the confirmation and the mapping writes
ConfirmMappings ==
    /\ pc = "confirm_mappings"
    /\ \E yes \in { IsYes(a) : a \in Answers } :
          IF yes
          THEN \E oks \in WriteResults(Len(mappings_to_submit)) :
                  /\ confirms' = [confirms EXCEPT !.mappings = "yes"]
                  /\ mapping_writes' = WritesDone(mappings_to_submit, oks)
                  /\ pmdb' = StoreAfterMappings(pmdb, WritesDone(mappings_to_submit, oks))
          ELSE /\ confirms' = [confirms EXCEPT !.mappings = "no"]
               /\ UNCHANGED <<mapping_writes, pmdb>>
    /\ pc' = IF new_ratings = <<>> THEN "ask" ELSE "confirm_ratings"
    /\ UNCHANGED <<media_type, imdb_id, ratings, tvdb_id, existing_mappings,
                   existing_labels, new_ratings, existing_ratings, mappings_to_submit,
                   success_count, reads, rating_writes, error>>
    /\ UNCHANGED <<req, parse_call, tvdbVars, media_choice, answer, exit_reason, synced>>

\* Steps 11 and 12 of process_item: the confirmation and the rating writes
ConfirmRatings ==
    /\ pc = "confirm_ratings"
    /\ \E yes \in { IsYes(a) : a \in Answers } :
          IF yes
          THEN \E oks \in WriteResults(Len(new_ratings)) :
                  /\ confirms' = [confirms EXCEPT !.ratings = "yes"]
                  /\ rating_writes' = WritesDone(new_ratings, oks)
                  /\ success_count' = CountOk(WritesDone(new_ratings, oks))
                  /\ pmdb' = StoreAfterRatings(pmdb, WritesDone(new_ratings, oks))
          ELSE /\ confirms' = [confirms EXCEPT !.ratings = "no"]
               /\ UNCHANGED <<rating_writes, success_count, pmdb>>
    /\ pc' = "ask"
    /\ UNCHANGED <<media_type, imdb_id, ratings, tvdb_id, existing_mappings,
                   existing_labels, new_ratings, existing_ratings, mappings_to_submit,
                   reads, mapping_writes, error>>
    /\ UNCHANGED <<req, parse_call, tvdbVars, media_choice, answer, exit_reason, synced>>

\* run: "Process another item?" after process_item returned or raised
AskAnother ==
    /\ pc = "ask"
    /\ \E a \in Answers :
          /\ answer' = a
          /\ IF IsYes(a)
             THEN /\ pc' = "process_item"
                  /\ UNCHANGED exit_reason
             ELSE /\ pc' = "exited"
                  /\ exit_reason' = "declined"
    /\ synced' = pmdb
    /\ ResetLocals
    /\ UNCHANGED <<req, parse_call, tvdbVars, media_choice, pmdb, error>>

\* Ctrl-C: inside process_item it breaks the loop, at run's own prompt it ends
\* run as well
Interrupt ==
    /\ pc \in {"process_item", "fetch", "resolve_tvdb", "reconcile", "confirm_mappings",
               "confirm_ratings", "ask"}
    /\ pc' = OnException("KeyboardInterrupt").pc
    /\ exit_reason' = OnException("KeyboardInterrupt").reason
    /\ ResetLocals
    /\ error' = ""
    /\ UNCHANGED <<req, parse_call, tvdbVars, media_choice, pmdb, answer, synced>>

Init ==
    /\ req = IdleRequest
    /\ InitClient
    /\ tvdb_key = "key"
    /\ InitSession
    /\ media_choice \in {"1", "2"}
    /\ pmdb \in {EmptyStore, UsedStore}
    /\ synced = pmdb

Next ==
    \/ SelectItem
    \/ FetchData
    \/ ResolveTvdb
    \/ Reconcile
    \/ ConfirmMappings
    \/ ConfirmRatings
    \/ AskAnother
    \/ Interrupt

Spec == Init /\ [][Next]_vars

(***************************************************************************)
(* Properties of the reconciliation pass and of the run loop               *)
(***************************************************************************)
\* the pass has read the store and built its plan
Reconciled ==
    /\ reads.mappings \in {"ok", "failed"}
    /\ reads.ratings \in {"ok", "failed"}

Labels(rs) == { x.label : x \in Range(rs) }

\* C1: new_ratings and existing_ratings are disjoint, together they are the
\* collected ratings with their labels and scores as collected, and a rating
\* is new exactly when its label, upper-cased, is not among the existing
\* labels.
C1_RatingsPartition ==
    Reconciled =>
        /\ Range(new_ratings) \cap Range(existing_ratings) = {}
        /\ Labels(new_ratings) \cap Labels(existing_ratings) = {}
        /\ Range(new_ratings) \cup Range(existing_ratings) = Range(ratings)
        /\ Len(new_ratings) + Len(existing_ratings) = Len(ratings)
        /\ \A x \in Range(ratings) :
              x \in Range(new_ratings) <=> Upper(x.label) \notin existing_labels

C1_Witness ==
    /\ Reconciled
    /\ new_ratings # <<>>
    /\ existing_ratings # <<>>
    /\ \E x \in Range(existing_ratings) : x.label \notin pmdb.labels

\* the store's record held, when the pass began, everything the pass collected
\* as the program writes it
AlreadyWritten ==
    /\ Mapping("imdb", imdb_id) \in synced.mappings
    /\ Truthy(tvdb_id) => Mapping("tvdb", Str(tvdb_id)) \in synced.mappings
    /\ Labels(ratings) \subseteq synced.labels

\* C2: a pass whose two reads succeed on a store that already holds what the
\* pass collected, as earlier passes wrote it, plans no mapping, finds no new
\* rating and writes nothing, however many passes came before.
C2_Idempotent ==
    (Reconciled /\ reads.mappings = "ok" /\ reads.ratings = "ok" /\ AlreadyWritten) =>
        /\ mappings_to_submit = <<>>
        /\ new_ratings = <<>>
        /\ mapping_writes = <<>>
        /\ rating_writes = <<>>

C2_Witness ==
    /\ Reconciled
    /\ reads.mappings = "ok"
    /\ reads.ratings = "ok"
    /\ AlreadyWritten
    /\ Truthy(tvdb_id)
    /\ Len(ratings) >= 2
    /\ mappings_to_submit = <<>>
    /\ new_ratings = <<>>
    /\ pc = "ask"

\* C3: the plan is an imdb entry exactly when existing_mappings['imdb'] lacks
\* imdb_id as it is written, then a tvdb entry exactly when the title is a
\* series, an identifier was resolved and existing_mappings['tvdb'] lacks it;
\* a movie never gets a tvdb entry.  With nothing in the snapshot and ratings
\* IM 74.0 and RT 91.0 the plan is the one imdb mapping and both ratings are
\* new; with IM among the existing labels only RT is new and IM is skipped.
C3_MappingPlan ==
    Reconciled =>
        LET imdbNew == ~("imdb" \in DOMAIN existing_mappings
                         /\ imdb_id \in existing_mappings["imdb"])
            tvdbNew == /\ media_type = "tv"
                       /\ tvdb_id.ty # "none"
                       /\ Truthy(tvdb_id)
                       /\ ~("tvdb" \in DOMAIN existing_mappings
                            /\ Str(tvdb_id) \in existing_mappings["tvdb"])
            both == <<Rating("IM", 74000), Rating("RT", 91000)>>
        IN /\ mappings_to_submit =
                (IF imdbNew THEN <<Mapping("imdb", imdb_id)>> ELSE <<>>)
                \o (IF tvdbNew THEN <<Mapping("tvdb", Str(tvdb_id))>> ELSE <<>>)
           /\ media_type = "movie" =>
                 \A i \in 1..Len(mappings_to_submit) : mappings_to_submit[i][1] # "tvdb"
           /\ (existing_mappings = <<>> /\ existing_labels = {} /\ ratings = both
               /\ ~Truthy(tvdb_id)) =>
                 /\ mappings_to_submit = <<Mapping("imdb", imdb_id)>>
                 /\ new_ratings = both
                 /\ existing_ratings = <<>>
           /\ (existing_labels = {"IM"} /\ ratings = both) =>
                 /\ new_ratings = <<Rating("RT", 91000)>>
                 /\ existing_ratings = <<Rating("IM", 74000)>>

C3_Witness ==
    /\ Reconciled
    /\ "imdb" \in DOMAIN existing_mappings
    /\ Upper(imdb_id) \in existing_mappings["imdb"]
    /\ mappings_to_submit = <<Mapping("imdb", imdb_id)>>
    /\ existing_labels = {"IM"}
    /\ new_ratings = <<Rating("RT", 91000)>>
    /\ existing_ratings = <<Rating("IM", 74000)>>

\* whether the plan has an entry of this type
Planned(id_type) ==
    \E i \in 1..Len(mappings_to_submit) : mappings_to_submit[i][1] = id_type

\* C8: the two reads never raise; a read that fails, with 'not found' or
\* otherwise, gives the empty result, the pass goes on, and every candidate
\* of that read is planned as new.
C8_FailedReadIsEmpty ==
    /\ reads.mappings # "raised"
    /\ reads.ratings # "raised"
    /\ \A r \in RequestResults :
          /\ ~GetExistingMappings(r, pmdb.mappings).raised
          /\ ~GetExistingRatings(r, pmdb.labels).raised
          /\ r.state # "returned" =>
                /\ GetExistingMappings(r, pmdb.mappings).value = <<>>
                /\ GetExistingRatings(r, pmdb.labels).value = {}
    /\ reads.mappings = "failed" =>
          /\ Reconciled
          /\ existing_mappings = <<>>
          /\ Planned("imdb")
          /\ Truthy(tvdb_id) => Planned("tvdb")
    /\ reads.ratings = "failed" =>
          /\ Reconciled
          /\ existing_labels = {}
          /\ new_ratings = ratings
          /\ existing_ratings = <<>>

C8_Witness ==
    /\ reads.mappings = "failed"
    /\ reads.ratings = "failed"
    /\ Mapping("imdb", imdb_id) \in synced.mappings
    /\ Labels(ratings) \cap synced.labels # {}
    /\ \E i \in 1..Len(mapping_writes) :
          mapping_writes[i].ok /\ mapping_writes[i].item \in synced.mappings
    /\ \E i \in 1..Len(rating_writes) :
          rating_writes[i].ok /\ rating_writes[i].item.label \in synced.labels

\* the calls of a batch are one call for each item of the plan, in its order
OneCallEach(writes, plan) ==
    /\ Len(writes) = Len(plan)
    /\ \A i \in 1..Len(plan) : writes[i].item = plan[i]
    /\ \A i, k \in 1..Len(plan) : plan[i] = plan[k] => i = k

\* C9: once a batch is confirmed every item of it is submitted, once, whatever
\* the other writes returned; a failed write raises nothing; success_count is
\* the number of rating writes that returned True, between 0 and the number of
\* new ratings.
C9_WritesBestEffort ==
    /\ confirms.mappings = "yes" =>
          /\ OneCallEach(mapping_writes, mappings_to_submit)
          /\ error = ""
    /\ confirms.ratings = "yes" =>
          /\ OneCallEach(rating_writes, new_ratings)
          /\ error = ""
          /\ success_count = CountOk(rating_writes)
          /\ 0 <= success_count
          /\ success_count <= Len(new_ratings)
    /\ confirms.ratings # "yes" => success_count = 0

C9_Witness ==
    /\ confirms.mappings = "yes"
    /\ confirms.ratings = "yes"
    /\ Len(mapping_writes) = 2
    /\ ~mapping_writes[1].ok
    /\ mapping_writes[2].ok
    /\ Len(rating_writes) >= 2
    /\ ~rating_writes[1].ok
    /\ rating_writes[2].ok
    /\ success_count = Len(new_ratings) - 1

\* C10: an exception of process_item leads to the prompt "Process another
\* item?" and not out of run; a yes or blank answer there starts the next
\* title; run ends only when the operator declines or interrupts.
C10_RunLoop ==
    [][ /\ (pc # "exited" /\ pc' = "exited") => exit_reason' \in {"declined", "interrupt"}
        /\ (error' # "" /\ pc # "ask") => (pc' = "ask" /\ exit_reason' = "")
        /\ (pc = "ask" /\ exit_reason' # "interrupt") =>
              /\ IsYes(answer') => pc' = "process_item"
              /\ ~IsYes(answer') => (pc' = "exited" /\ exit_reason' = "declined")
      ]_vars

C10_Witness ==
    /\ pc = "process_item"
    /\ error # ""
    /\ IsYes(answer)
    /\ answer # ""

(***************************************************************************)
(* SpecParse: calls of parse_omdb_ratings and parse_tmdb_rating, and of    *)
(* Step 5 of process_item that puts their results together                 *)
(***************************************************************************)
\* the imdbRating fields of the parsed payloads: a score, the sentinel, no
\* field, an empty text, a text float() rejects
ParseImdbRatings == {Text("7.4"), Text("N/A"), Missing, Text(""), Text("abc")}

\* the entries of the Ratings arrays of the parsed payloads
ParseEntrySet ==
    { OmdbEntry(Text(source), value) :
        source \in {"Internet Movie Database", "Rotten Tomatoes", "Metacritic"},
        value \in {Text("91%"), Text("65/100"), Text("N/A"), Text("tbd"), Missing} }

RECURSIVE SeqsUpTo(_, _)
SeqsUpTo(S, n) ==
    IF n = 0 THEN {<<>>}
    ELSE SeqsUpTo(S, n - 1)
         \cup { Append(q, x) : q \in { y \in SeqsUpTo(S, n - 1) : Len(y) = n - 1 }, x \in S }

ParsePayloads ==
    { [imdbRating |-> im, Ratings |-> rs] :
        im \in ParseImdbRatings, rs \in SeqsUpTo(ParseEntrySet, MaxEntries) }

\* the vote averages of the parsed details: none or 0, 8.12, 7.456
ParseVotes == {0, 8120, 7456}

\* Step 5 runs the parsers on what the services returned
CallParse ==
    /\ ~parse_call.called
    /\ \E d \in ParsePayloads, v \in ParseVotes :
          parse_call' =
              [called |-> TRUE, omdb_data |-> d, vote_average |-> v,
               out |-> ParseOmdbRatings(d),
               collected |-> CollectRatings([kind |-> "data", data |-> d], v)]
    /\ UNCHANGED <<req, tvdbVars, locals, runVars>>

\* the results are used and dropped; the next title is parsed afresh
ForgetParse ==
    /\ parse_call.called
    /\ parse_call' = NoParseCall
    /\ UNCHANGED <<req, tvdbVars, locals, runVars>>

InitParse ==
    /\ req = IdleRequest
    /\ InitClient
    /\ tvdb_key = "key"
    /\ InitSession
    /\ media_choice = "1"
    /\ pmdb = EmptyStore
    /\ synced = EmptyStore

NextParse == CallParse \/ ForgetParse

SpecParse == InitParse /\ [][NextParse]_vars

\* the values of the entries of the parsed Ratings array that name this source
ValuesOf(source) ==
    { parse_call.omdb_data.Ratings[i].Value :
        i \in { k \in 1..Len(parse_call.omdb_data.Ratings) :
                  parse_call.omdb_data.Ratings[k].Source = Text(source) } }

\* the scores collected under this label
ScoresOf(label) ==
    { x.score : x \in { y \in Range(parse_call.collected.ratings) : y.label = label } }

\* C11: on inputs the parsers accept, imdbRating "7.4" gives IM 74.0, a Rotten
\* Tomatoes value "91%" gives RT 91.0, a Metacritic value "65/100" gives MC
\* 65.0, a vote average gives TM = value x 10 rounded to one decimal (8.12
\* gives 81.2, 7.456 gives 74.6); a field holding 'N/A' or missing, and a vote
\* average of 0 or none, give no entry for their label; no entry is a zero
\* score, a label has one entry, and the result is a function of the inputs.
C11_ScoreNormalization ==
    (parse_call.called /\ ~parse_call.out.raised) =>
        /\ ~parse_call.collected.raised
        /\ parse_call.omdb_data.imdbRating = Text("7.4") => ScoresOf("IM") = {74000}
        /\ parse_call.omdb_data.imdbRating \in {Text("N/A"), Missing} => ScoresOf("IM") = {}
        /\ Text("91%") \in ValuesOf("Rotten Tomatoes") => ScoresOf("RT") = {91000}
        /\ ValuesOf("Rotten Tomatoes") \subseteq {Text("N/A")} => ScoresOf("RT") = {}
        /\ Text("65/100") \in ValuesOf("Metacritic") => ScoresOf("MC") = {65000}
        /\ ValuesOf("Metacritic") \subseteq {Text("N/A")} => ScoresOf("MC") = {}
        /\ parse_call.vote_average = 8120 => ScoresOf("TM") = {81200}
        /\ parse_call.vote_average = 7456 => ScoresOf("TM") = {74600}
        /\ parse_call.vote_average = 0 => ScoresOf("TM") = {}
        /\ \A x \in Range(parse_call.collected.ratings) : x.score > 0
        /\ Cardinality(Labels(parse_call.collected.ratings))
              = Len(parse_call.collected.ratings)
        /\ parse_call.out = ParseOmdbRatings(parse_call.omdb_data)

C11_Witness ==
    /\ parse_call.called
    /\ parse_call.omdb_data.imdbRating = Text("7.4")
    /\ Text("N/A") \in ValuesOf("Rotten Tomatoes")
    /\ parse_call.vote_average = 7456
    /\ parse_call.collected.ratings =
          <<Rating("IM", 74000), Rating("MC", 65000), Rating("TM", 74600)>>

\* no call of submit_mapping or submit_rating was made in the pass so far
NoWrites == mapping_writes = <<>> /\ rating_writes = <<>>

\* what C12 says of every state of a pass
WritesAreGated ==
    /\ mapping_writes # <<>> =>
          imdb_id # "" /\ Reconciled /\ confirms.mappings = "yes"
    /\ rating_writes # <<>> =>
          imdb_id # "" /\ Reconciled /\ confirms.ratings = "yes"
    /\ imdb_id = "" => reads = NoReads /\ NoWrites
    /\ confirms.mappings = "no" => mapping_writes = <<>>
    /\ confirms.ratings = "no" => rating_writes = <<>>

\* what C12 says of every step of a pass
WritesFollowConfirmation ==
    /\ (mapping_writes = <<>> /\ mapping_writes' # <<>>) =>
          /\ pc = "confirm_mappings"
          /\ imdb_id # ""
          /\ Reconciled
          /\ confirms'.mappings = "yes"
    /\ (rating_writes = <<>> /\ rating_writes' # <<>>) =>
          /\ pc = "confirm_ratings"
          /\ imdb_id # ""
          /\ Reconciled
          /\ confirms'.ratings = "yes"
    /\ pmdb' # pmdb => (mapping_writes' # mapping_writes \/ rating_writes' # rating_writes)
    /\ (pc = "fetch" /\ imdb_id' = "") =>
          (pc' \in {"ask", "exited"} /\ reads' = NoReads /\ pmdb' = pmdb)
    /\ (pc = "confirm_mappings" /\ confirms'.mappings = "no") =>
          /\ mapping_writes' = <<>>
          /\ pmdb' = pmdb
          /\ new_ratings # <<>> => pc' = "confirm_ratings"
    /\ (pc = "confirm_ratings" /\ confirms'.ratings = "no") =>
          /\ rating_writes' = <<>>
          /\ pmdb' = pmdb

\* C12: within a pass a write to the store is issued only after an IMDb
\* identifier was found, both reads of the existing state completed and the
\* operator answered 'y', 'yes' or blank to that batch's confirmation.  A
\* pass without an IMDb identifier ends without reading or writing the store;
\* declining the mappings writes no mapping and still leads to the rating
\* confirmation when there are new ratings; declining the ratings writes no
\* rating.
C12_WritesGated == []WritesAreGated /\ [][WritesFollowConfirmation]_vars

C12_Witness ==
    /\ pc = "ask"
    /\ imdb_id # ""
    /\ Reconciled
    /\ mappings_to_submit # <<>>
    /\ confirms.mappings = "no"
    /\ mapping_writes = <<>>
    /\ confirms.ratings = "yes"
    /\ rating_writes # <<>>

\* the scores parse_omdb_ratings returned under this label
ParsedScoresOf(label) ==
    { x.score : x \in { y \in Range(parse_call.out.ratings) : y.label = label } }

\* C13: parse_omdb_ratings raises for no Ratings array; an entry whose value is
\* a text that is no score, or is missing, is left out, and the imdbRating
\* field and the other entries are normalized all the same.
C13_UnparseableSkipped ==
    parse_call.called =>
        /\ ~parse_call.out.raised
        /\ ~parse_call.collected.raised
        /\ parse_call.omdb_data.imdbRating = Text("7.4") => ParsedScoresOf("IM") = {74000}
        /\ Text("91%") \in ValuesOf("Rotten Tomatoes") => ParsedScoresOf("RT") = {91000}
        /\ Text("65/100") \in ValuesOf("Metacritic") => ParsedScoresOf("MC") = {65000}
        /\ ValuesOf("Rotten Tomatoes") \subseteq {Text("tbd"), Text("65/100"), Missing} =>
              ParsedScoresOf("RT") = {}
        /\ ValuesOf("Metacritic") \subseteq {Text("tbd"), Text("91%"), Missing} =>
              ParsedScoresOf("MC") = {}

====
